---- MODULE Spec2Model ----
(***************************************************************************)
(* Model of the route-processing engine of gpx-compare (src/code/route.py, *)
(* class Route): construction of a Route from a GPX file (_load_gpx and    *)
(* _process_data) and the statistics properties read from it afterwards.   *)
(*                                                                         *)
(* Number representation.  The program works on floats; the model uses     *)
(* exact integers and rationals:                                           *)
(*   - elevations are whole metres;                                        *)
(*   - latitude and longitude are counted in arc-metres: one unit is       *)
(*     1/ONE_DEGREE of a degree (gpxpy: ONE_DEGREE = 111319.49 m), so that *)
(*     0.1 degree is 11132 units and 0.2 degree is 22264 units.  Latitudes *)
(*     are offsets from 60 degrees north;                                  *)
(*   - distances are whole metres, math.sqrt is the integer square root;   *)
(*   - a quotient the program computes is kept as a fraction num/den;      *)
(*   - slope gradients and bin edges are compared in units of 0.0001.      *)
(* The functions of the gpxpy library that Route calls (geo.distance,      *)
(* GPXTrackSegment.length_3d, GPXTrackSegment.get_uphill_downhill) are     *)
(* modelled by what the library computes, at the place Route calls them.   *)
(***************************************************************************)
EXTENDS Integers, Sequences, FiniteSets, TLC

VARIABLES
    gpx_file_path,  \* the file handed to Route(...): here its parsed content
    pc,             \* "new" before construction, then "ready" or "failed"
    error,          \* the exception construction ended with, or "none"
    points,         \* self.points: the points of the first segment
    df,             \* self.df: the metrics table, one row per point
    last,           \* the last read or re-derivation: its name, value or exception
    gpx_files,               \* app.py: the .gpx entries of the directory
    selected_route_name_1,   \* app.py: value of the first selectbox
    selected_route_name_2,   \* app.py: value of the second selectbox
    page                     \* app.py: what the last run of the script rendered

route_vars == <<gpx_file_path, pc, error, points, df, last>>
app_vars == <<gpx_files, selected_route_name_1, selected_route_name_2, page>>
vars == <<gpx_file_path, pc, error, points, df, last,
          gpx_files, selected_route_name_1, selected_route_name_2, page>>

\* Longest first segment the inputs contain.
MaxPoints == 3

\* point.elevation of a <trkpt> without <ele> (Python None).
None == -1000000

----------------------------------------------------------------------------
(* Inputs *)

Latitudes == {0, 11132}

\* cos(radians(latitude)) * 10000: cos(60.0 deg) = 0.5, cos(60.1 deg) = 0.4985
CosE4 == [l \in Latitudes |-> IF l = 0 THEN 5000 ELSE 4985]

Point(lat, lon, ele) == [latitude |-> lat, longitude |-> lon, elevation |-> ele]

\* Points 50 m apart on the 60th parallel (or coincident), every elevation
\* difference that puts a gradient on a bin edge, and points without <ele>.
NearPoints ==
    {Point(0, lon, ele) : lon \in {0, 100}, ele \in {None, 0, 5, 10, 50}}

\* Points 0.1 degree apart in latitude and longitude, and one more than
\* 0.2 degree away.
FarPoints ==
    {Point(11132, 11132, 0), Point(0, 11132, 10), Point(11132, 0, 0),
     Point(0, 30000, 0)}

Points == NearPoints \cup FarPoints

Tracks == UNION {[1..n -> Points] : n \in 0..MaxPoints}

\* A file is well-formed XML or not; a well-formed one holds tracks, each a
\* sequence of segments, each a sequence of points.
Files ==
    {[wellformed |-> FALSE, tracks |-> <<>>],
     [wellformed |-> TRUE, tracks |-> <<>>],
     [wellformed |-> TRUE, tracks |-> << <<>> >>]}
    \cup {[wellformed |-> TRUE, tracks |-> << <<t>> >>] : t \in Tracks}

----------------------------------------------------------------------------
(* Arithmetic helpers *)

Abs(x) == IF x < 0 THEN -x ELSE x

RECURSIVE SqrtSearch(_, _, _)
SqrtSearch(n, lo, hi) ==
    IF lo >= hi THEN lo
    ELSE LET mid == (lo + hi + 1) \div 2
         IN  IF mid * mid <= n THEN SqrtSearch(n, mid, hi)
             ELSE SqrtSearch(n, lo, mid - 1)

\* math.sqrt on whole numbers: the largest r with r*r <= n.
ISqrt(n) == SqrtSearch(n, 0, 46340)

RECURSIVE SumSeq(_)
SumSeq(s) == IF s = <<>> THEN 0 ELSE s[1] + SumSeq(Tail(s))

----------------------------------------------------------------------------
(* gpxpy, as Route calls it *)

\* gpxpy.geo.haversine_distance for the far branch of geo.distance: the
\* great-circle distance, symmetric in its two points and blind to elevation
\* (for arcs this short: sqrt(dlat^2 + cos(lat1)*cos(lat2)*dlon^2)).
HaversineDistance(lat1, lon1, lat2, lon2) ==
    LET x  == Abs(lat1 - lat2)
        y1 == (Abs(lon1 - lon2) * CosE4[lat1]) \div 10000
        y2 == (Abs(lon1 - lon2) * CosE4[lat2]) \div 10000
    IN  ISqrt(x * x + y1 * y2)

\* gpxpy.geo.distance(latitude_1, longitude_1, elevation_1, latitude_2,
\* longitude_2, elevation_2): haversine when the points are more than 0.2
\* degree apart; otherwise the flat approximation, whose longitude scale is
\* the cosine of the FIRST point's latitude, extended by the elevation
\* difference when both elevations are there and differ.
Distance(lat1, lon1, ele1, lat2, lon2, ele2) ==
    IF Abs(lat1 - lat2) > 22263 \/ Abs(lon1 - lon2) > 22263
    THEN HaversineDistance(lat1, lon1, lat2, lon2)
    ELSE LET coef == CosE4[lat1]
             x    == Abs(lat1 - lat2)
             y    == (Abs(lon1 - lon2) * coef) \div 10000
             distance_2d == ISqrt(x * x + y * y)
         IN  IF ele1 = None \/ ele2 = None \/ ele1 = ele2
             THEN distance_2d
             ELSE ISqrt(distance_2d * distance_2d
                        + (ele1 - ele2) * (ele1 - ele2))

\* Location.distance_3d(self, location): distance from self to location.
Distance3d(self, location) ==
    Distance(self.latitude, self.longitude, self.elevation,
             location.latitude, location.longitude, location.elevation)

\* GPXTrackSegment.length_3d(): geo.length(points, True) adds, for i > 0,
\* points[i].distance_3d(points[i-1]) when it is not zero.
Length3d(pts) ==
    SumSeq([i \in 1..(IF Len(pts) = 0 THEN 0 ELSE Len(pts) - 1) |->
               Distance3d(pts[i + 1], pts[i])])

\* The elevations that are not None, in order.
RECURSIVE WithoutNone(_)
WithoutNone(es) ==
    IF es = <<>> THEN <<>>
    ELSE IF es[1] = None THEN WithoutNone(Tail(es))
         ELSE <<es[1]>> \o WithoutNone(Tail(es))

\* geo.calculate_uphill_downhill, __filter with endpoints smoothed as well.
SmoothedAllPoints(es) ==
    [n \in 1..Len(es) |->
        3 * es[IF n > 1 THEN n - 1 ELSE n] + 4 * es[n]
        + 3 * es[IF n < Len(es) THEN n + 1 ELSE n]]

\* geo.calculate_uphill_downhill without its __filter.
SmoothedNotAtAll(es) == [n \in 1..Len(es) |-> 10 * es[n]]

\* geo.calculate_uphill_downhill, __filter: every interior elevation becomes
\* previous*.3 + current*.4 + next*.3; the first and the last stay.  The
\* result is in tenths of a metre.
Smoothed(es) ==
    [n \in 1..Len(es) |->
        IF 1 < n /\ n < Len(es)
        THEN 3 * es[n - 1] + 4 * es[n] + 3 * es[n + 1]
        ELSE 10 * es[n]]

\* geo.calculate_uphill_downhill: uphill adds the rises d > 0 of the smoothed
\* elevations, downhill the falls; both in tenths of a metre.
UphillDownhill(elevations) ==
    LET s == Smoothed(WithoutNone(elevations))
        d == [n \in 1..(IF Len(s) = 0 THEN 0 ELSE Len(s) - 1) |->
                 s[n + 1] - s[n]]
    IN  [uphill   |-> SumSeq([n \in 1..Len(d) |-> IF d[n] > 0 THEN d[n] ELSE 0]),
         downhill |-> SumSeq([n \in 1..Len(d) |-> IF d[n] > 0 THEN 0 ELSE -d[n]])]

\* GPXTrackSegment.get_uphill_downhill(): over the elevations of the points.
GetUphillDownhill(pts) ==
    UphillDownhill([i \in 1..Len(pts) |-> pts[i].elevation])

----------------------------------------------------------------------------
(* Route._process_data *)

\* Threshold to consider a section as hard (20% gradient), in units of 0.0001.
HARD_SLOPE_THRESHOLD == 2000

\* A float quotient: finite num/den with den > 0, or inf of a sign, or NaN.
Fin(n, d) == [kind |-> "fin", num |-> n, den |-> d]
NaN == [kind |-> "nan", num |-> 0, den |-> 1]
Inf(sign) == [kind |-> "inf", num |-> sign, den |-> 1]

\* Series / Series on floats: x/0 is inf of the sign of x, 0/0 is NaN; no
\* exception is raised.
FloatDiv(a, b) ==
    IF b = 0
    THEN IF a = 0 THEN NaN ELSE Inf(IF a > 0 THEN 1 ELSE -1)
    ELSE Fin(a, b)

\* np.arange(start, stop, step): start, start + step, ... below stop.
Arange(start, stop, step) ==
    [i \in 1..((stop - start + step - 1) \div step) |-> start + (i - 1) * step]

\* self.slope_bins = np.arange(-1, 1, 0.1).round(2), in units of 0.0001.
slope_bins == Arange(-10000, 10000, 1000)

\* f"{round(100*lo)} -> {round(100*hi)}%" (the arrow is U+2192 in the source).
BinLabel(lo, hi) ==
    ToString(lo \div 100) \o " -> " \o ToString(hi \div 100) \o "%"

\* self.slope_bin_labels: one label per pair of consecutive bin edges.
slope_bin_labels ==
    [i \in 1..(Len(slope_bins) - 1) |-> BinLabel(slope_bins[i], slope_bins[i + 1])]

\* The category of a missing value.
NaNLabel == "NaN"

\* value + 0.0001 >= edge, for a finite value num/den and an edge in 0.0001.
NudgedAtLeast(g, edge) == g.num * 10000 + g.den >= edge * g.den

\* pd.cut(x['slope_gradient'] + 0.0001, bins, right=False, labels): the label
\* of the bin [bins[i], bins[i+1]) holding the nudged value; NaN for NaN and
\* for a value outside every bin.
Cut(g, bins, labels) ==
    IF g.kind # "fin" THEN NaNLabel
    ELSE LET hit == {i \in 1..(Len(bins) - 1) :
                        /\ NudgedAtLeast(g, bins[i])
                        /\ ~NudgedAtLeast(g, bins[i + 1])}
         IN  IF hit = {} THEN NaNLabel ELSE labels[CHOOSE i \in hit : TRUE]

\* abs(gradient) >= threshold
HardAtThreshold(g) ==
    CASE g.kind = "nan" -> FALSE
      [] g.kind = "inf" -> TRUE
      [] OTHER -> Abs(g.num) * 10000 >= HARD_SLOPE_THRESHOLD * g.den

\* abs(gradient) > self.HARD_SLOPE_THRESHOLD; a comparison with NaN is False.
IsHardSlope(g) ==
    CASE g.kind = "nan" -> FALSE
      [] g.kind = "inf" -> TRUE
      [] OTHER -> Abs(g.num) * 10000 > HARD_SLOPE_THRESHOLD * g.den

\* .fillna({'slope_gradient': 0, 'slope_bin': '0 -> 10%'})
FillnaGradient(g) == IF g.kind = "nan" THEN Fin(0, 1) ELSE g
\* The fillna without its 'slope_bin' entry.
FillnaGradientOnly(label) == label

FillnaBin(label) == IF label = NaNLabel THEN "0 -> 10%" ELSE label

\* np.concatenate([[0], np.diff(elevation)])
ElevationDiff(pts, i) ==
    IF i = 1 THEN 0 ELSE pts[i].elevation - pts[i - 1].elevation

\* self.distance_between_points_3d[i]: gpxpy.geo.distance from row i to
\* row i+1 (0-based i), led by a 0.
DistanceBetweenPoints3d(pts, i) ==
    IF i = 1 THEN 0
    ELSE Distance(pts[i - 1].latitude, pts[i - 1].longitude, pts[i - 1].elevation,
                  pts[i].latitude, pts[i].longitude, pts[i].elevation)

\* self.distance_between_points_2d[i]: the same with both elevations 0.
DistanceBetweenPoints2d(pts, i) ==
    IF i = 1 THEN 0
    ELSE Distance(pts[i - 1].latitude, pts[i - 1].longitude, 0,
                  pts[i].latitude, pts[i].longitude, 0)

\* np.cumsum(distances)/1000, led by a 0: kilometres as a fraction.  The
\* argument is the distance column, its leading 0 included.
CumKm(distances, i) ==
    [num |-> SumSeq(SubSeq(distances, 1, i)), den |-> 1000]

\* Row i of self.df after the assign and the fillna.
Row(pts, i) ==
    LET elevation_diff == ElevationDiff(pts, i)
        d2d            == DistanceBetweenPoints2d(pts, i)
        slope_gradient == FloatDiv(elevation_diff, d2d)
    IN  [latitude       |-> pts[i].latitude,
         longitude      |-> pts[i].longitude,
         elevation      |-> pts[i].elevation,
         elevation_diff |-> elevation_diff,
         distance_between_points_3d |-> DistanceBetweenPoints3d(pts, i),
         distance_between_points_2d |-> d2d,
         cum_distance_3d_km |->
             CumKm([j \in 1..Len(pts) |-> DistanceBetweenPoints3d(pts, j)], i),
         cum_distance_2d_km |->
             CumKm([j \in 1..Len(pts) |-> DistanceBetweenPoints2d(pts, j)], i),
         slope_gradient |-> FillnaGradient(slope_gradient),
         slope_bin      |-> FillnaBin(Cut(slope_gradient, slope_bins, slope_bin_labels)),
         hard_slope     |-> IsHardSlope(slope_gradient)]

\* _process_data without the leading 0 of the concatenations: one row per
\* consecutive pair only.
ProcessedTableOfPairs(pts) ==
    [i \in 1..(IF Len(pts) = 0 THEN 0 ELSE Len(pts) - 1) |-> Row(pts, i + 1)]

ProcessedTable(pts) == [i \in 1..Len(pts) |-> Row(pts, i)]

\* The exceptions _process_data can end with for these points, "none" when
\* it can return:
\*   no point: the empty coordinates array does not fit three columns;
\*   two or more points, one without elevation: np.diff subtracts None;
\*   one point without elevation: the object-typed column either divides
\*   0 by 0.0 in Python or goes through as NaN.
ProcessOutcomes(pts) ==
    IF Len(pts) = 0 THEN {"ValueError"}
    ELSE IF \E i \in 1..Len(pts) : pts[i].elevation = None
         THEN IF Len(pts) >= 2 THEN {"TypeError"}
              ELSE {"ZeroDivisionError", "none"}
         ELSE {"none"}

\* The exception _load_gpx ends with for this file, "none" when it returns.
LoadOutcome(file) ==
    IF ~file.wellformed THEN "GPXXMLSyntaxException"
    ELSE IF Len(file.tracks) = 0 THEN "IndexError"
    ELSE IF Len(file.tracks[1]) = 0 THEN "IndexError"
    ELSE "none"

----------------------------------------------------------------------------
(* The state machine *)

NoRead == [prop |-> "none", raised |-> "none", num |-> 0, den |-> 1]

\* index=None: a selectbox nobody has chosen from returns None.
NoSelection == [stem |-> "", ext |-> ""]

\* Nothing rendered: no view, no distance computed, no map, no exception.
BlankPage == [view |-> "none", distance |-> -1, maps |-> <<>>, raised |-> "none"]

RouteInit ==
    /\ gpx_file_path = [wellformed |-> FALSE, tracks |-> <<>>]
    /\ pc = "new"
    /\ error = "none"
    /\ points = <<>>
    /\ df = <<>>
    /\ last = NoRead

AppInit ==
    /\ gpx_files = {}
    /\ selected_route_name_1 = NoSelection
    /\ selected_route_name_2 = NoSelection
    /\ page = BlankPage

Init == RouteInit /\ AppInit

\* Route.__init__(gpx_file_path): _load_gpx, then _process_data.  An
\* exception of either leaves no Route object.
Construct ==
    /\ pc = "new"
    /\ \E file \in Files :
        /\ gpx_file_path' = file
        /\ IF LoadOutcome(file) # "none"
           THEN /\ pc' = "failed"
                /\ error' = LoadOutcome(file)
                /\ UNCHANGED <<points, df>>
           ELSE LET pts == file.tracks[1][1]
                IN  \E outcome \in ProcessOutcomes(pts) :
                       IF outcome # "none"
                       THEN /\ pc' = "failed"
                            /\ error' = outcome
                            /\ points' = pts
                            /\ UNCHANGED df
                       ELSE /\ pc' = "ready"
                            /\ error' = "none"
                            /\ points' = pts
                            /\ df' = ProcessedTable(pts)
    /\ UNCHANGED last
    /\ UNCHANGED app_vars

Value(name, n, d) == [prop |-> name, raised |-> "none", num |-> n, den |-> d]
Raised(name, exc) == [prop |-> name, raised |-> exc, num |-> 0, den |-> 1]

\* Route.total_distance: self.segment.length_3d(), in metres.
total_distance == Length3d(points)

\* Route.elevation_gain / elevation_loss: get_uphill_downhill(), tenths of m.
elevation_gain == GetUphillDownhill(points).uphill
elevation_loss == GetUphillDownhill(points).downhill

\* Route.hard_slope_percentage: rows with abs(slope_gradient) above the
\* threshold over len(self.df).
hard_slope_percentage ==
    [num |-> Cardinality({i \in 1..Len(df) : IsHardSlope(df[i].slope_gradient)}),
     den |-> Len(df)]

ReadTotalDistance ==
    /\ pc = "ready"
    /\ last' = Value("total_distance", total_distance, 1)
    /\ UNCHANGED <<gpx_file_path, pc, error, points, df>>
    /\ UNCHANGED app_vars

ReadElevationGain ==
    /\ pc = "ready"
    /\ last' = Value("elevation_gain", elevation_gain, 10)
    /\ UNCHANGED <<gpx_file_path, pc, error, points, df>>
    /\ UNCHANGED app_vars

ReadElevationLoss ==
    /\ pc = "ready"
    /\ last' = Value("elevation_loss", elevation_loss, 10)
    /\ UNCHANGED <<gpx_file_path, pc, error, points, df>>
    /\ UNCHANGED app_vars

\* Route.avg_elevation_gain_per_km:
\* self.elevation_gain / (self.total_distance / 1000) on Python floats, where
\* a zero divisor raises ZeroDivisionError.
ReadAvgElevationGainPerKm ==
    /\ pc = "ready"
    /\ last' = IF total_distance = 0
               THEN Raised("avg_elevation_gain_per_km", "ZeroDivisionError")
               ELSE Value("avg_elevation_gain_per_km",
                          elevation_gain * 1000, 10 * total_distance)
    /\ UNCHANGED <<gpx_file_path, pc, error, points, df>>
    /\ UNCHANGED app_vars

ReadHardSlopePercentage ==
    /\ pc = "ready"
    /\ last' = Value("hard_slope_percentage",
                     hard_slope_percentage.num, hard_slope_percentage.den)
    /\ UNCHANGED <<gpx_file_path, pc, error, points, df>>
    /\ UNCHANGED app_vars

\* Route._process_data() once more on the same self.points: self.df is
\* derived again from self.coordinates, which _load_gpx set.
Rederive ==
    /\ pc = "ready"
    /\ df' = ProcessedTable(points)
    /\ last' = Value("_process_data", Len(df'), 1)
    /\ UNCHANGED <<gpx_file_path, pc, error, points>>
    /\ UNCHANGED app_vars

Next ==
    \/ Construct
    \/ Rederive
    \/ ReadTotalDistance
    \/ ReadElevationGain
    \/ ReadElevationLoss
    \/ ReadAvgElevationGainPerKm
    \/ ReadHardSlopePercentage

Spec == Init /\ [][Next]_vars

----------------------------------------------------------------------------
(* The Streamlit page, src/code/app.py (src/pages/1_..._Analise_rotas.py   *)
(* is the same script with route names in place of file names).  One run   *)
(* of the script, top to bottom, is one action.  The page imports Route    *)
(* and RouteGroup from a route module; RouteGroup and the plot methods it  *)
(* calls are not in src/code/route.py and are modelled from the            *)
(* specification (section 4.4).                                            *)

Entry(stem, ext) == [stem |-> stem, ext |-> ext]

\* What os.listdir(GPX_FILE_PATH) can hold: five recordings and another file.
Directory ==
    {Entry("a", "gpx"), Entry("b", "gpx"), Entry("c", "gpx"),
     Entry("e", "gpx"), Entry("empty", "gpx"), Entry("notes", "txt")}

\* A recording of two points 50 m apart on the 60th parallel, from lon on.
Recording(lon) ==
    [wellformed |-> TRUE,
     tracks |-> << << <<Point(0, lon, 0), Point(0, lon + 100, 10)>> >> >>]

\* The recordings: b is 50,000 m east of a, c is 49,999 m, e is 75 km;
\* "empty" has no track.
Content(entry) ==
    CASE entry.stem = "a" -> Recording(0)
      [] entry.stem = "b" -> Recording(100000)
      [] entry.stem = "c" -> Recording(99998)
      [] entry.stem = "e" -> Recording(150000)
      [] OTHER -> [wellformed |-> TRUE, tracks |-> <<>>]

\* Route(path) as the page calls it: the exception __init__ ends with, or
\* "none" and the points of the Route.
RouteOutcomes(file) ==
    IF LoadOutcome(file) # "none"
    THEN {[raised |-> LoadOutcome(file), points |-> <<>>]}
    ELSE {[raised |-> outcome, points |-> file.tracks[1][1]] :
             outcome \in ProcessOutcomes(file.tracks[1][1])}

\* Route.center_coordinates: np.mean of the latitude and longitude columns,
\* each a fraction sum / count.
CenterCoordinates(table) ==
    [latitude  |-> [num |-> SumSeq([i \in 1..Len(table) |-> table[i].latitude]),
                    den |-> Len(table)],
     longitude |-> [num |-> SumSeq([i \in 1..Len(table) |-> table[i].longitude]),
                    den |-> Len(table)]]

\* RouteGroup.calculate_routes_distance(): the ground distance between the
\* centroids of the two routes, in metres.
CalculateRoutesDistance(table1, table2) ==
    LET c1 == CenterCoordinates(table1)
        c2 == CenterCoordinates(table2)
        x  == Abs(c1.latitude.num * c2.latitude.den
                  - c2.latitude.num * c1.latitude.den)
                 \div (c1.latitude.den * c2.latitude.den)
        dlon == Abs(c1.longitude.num * c2.longitude.den
                    - c2.longitude.num * c1.longitude.den)
                 \div (c1.longitude.den * c2.longitude.den)
        y  == (dlon * CosE4[c1.latitude.num \div c1.latitude.den]) \div 10000
    IN  IF x = 0 THEN y ELSE ISqrt(x * x + y * y)

\* The map section with the comparison inverted to <=.
MapLayoutAtMost(distance) ==
    IF distance <= 50000 THEN <<"combined">> ELSE <<"route1", "route2">>

\* if distance < 50_000: route_group.plot_combined_map() in one st_folium;
\* else: two columns, route1.plot_map and route2.plot_map.
MapLayout(distance) ==
    IF distance < 50000 THEN <<"combined">> ELSE <<"route1", "route2">>

\* gpx_files = [f for f in os.listdir(GPX_FILE_PATH) if f.endswith('.gpx')]
\* (sorted in the script; only membership matters to the selectboxes).
GpxFilesOf(listing) == {f \in listing : f.ext = "gpx"}

\* A run with nothing chosen in the first selectbox: nothing below
\* "if selected_route_name_1:" runs.
RunWithoutSelection ==
    \E listing \in SUBSET Directory :
        /\ gpx_files' = GpxFilesOf(listing)
        /\ selected_route_name_1' = NoSelection
        /\ selected_route_name_2' = NoSelection
        /\ page' = BlankPage
        /\ UNCHANGED route_vars

\* A run with a first route chosen and nothing in "Comparar com": the
\* single-route view, its metrics (avg_elevation_gain_per_km among them)
\* and one map.
RunSingleRoute ==
    \E listing \in SUBSET Directory :
      \E name1 \in GpxFilesOf(listing) :
        \E route1 \in RouteOutcomes(Content(name1)) :
            /\ gpx_files' = GpxFilesOf(listing)
            /\ selected_route_name_1' = name1
            /\ selected_route_name_2' = NoSelection
            /\ page' =
                 IF route1.raised # "none"
                 THEN [BlankPage EXCEPT !.view = "single", !.raised = route1.raised]
                 ELSE IF Length3d(route1.points) = 0
                 THEN [BlankPage EXCEPT !.view = "single",
                                        !.raised = "ZeroDivisionError"]
                 ELSE [BlankPage EXCEPT !.view = "single", !.maps = <<"route1">>]
            /\ UNCHANGED route_vars

\* A run with both selectboxes chosen; the options of the second are the
\* gpx_files other than the first selection.  Both routes are loaded, the
\* comparison is rendered, then the maps by the distance of the routes.
RunTwoRoutes ==
    \E listing \in SUBSET Directory :
      \E name1 \in GpxFilesOf(listing) :
        \E name2 \in {f \in GpxFilesOf(listing) : f # name1} :
          \E route1 \in RouteOutcomes(Content(name1)) :
            \E route2 \in RouteOutcomes(Content(name2)) :
                /\ gpx_files' = GpxFilesOf(listing)
                /\ selected_route_name_1' = name1
                /\ selected_route_name_2' = name2
                /\ page' =
                     IF route1.raised # "none"
                     THEN [BlankPage EXCEPT !.view = "compare",
                                            !.raised = route1.raised]
                     ELSE IF route2.raised # "none"
                     THEN [BlankPage EXCEPT !.view = "compare",
                                            !.raised = route2.raised]
                     ELSE LET distance ==
                                  CalculateRoutesDistance(
                                      ProcessedTable(route1.points),
                                      ProcessedTable(route2.points))
                          IN  [view |-> "compare", distance |-> distance,
                               maps |-> MapLayout(distance), raised |-> "none"]
                /\ UNCHANGED route_vars

NextApp ==
    \/ RunWithoutSelection
    \/ RunSingleRoute
    \/ RunTwoRoutes

SpecApp == Init /\ [][NextApp]_vars

----------------------------------------------------------------------------
(* Properties *)

Ready == pc = "ready"

\* Every point of the route has an elevation.
WithElevations == \A i \in 1..Len(points) : points[i].elevation # None

\* The elevation column of the metrics table.
Elevation(i) == df[i].elevation

\* The rows 2..Len(df), the rows of the consecutive pairs, counted from 1.
Pairs == 1..(IF Len(df) = 0 THEN 0 ELSE Len(df) - 1)

RawRise(i) == IF df[i].elevation_diff > 0 THEN df[i].elevation_diff ELSE 0
RawFall(i) == IF df[i].elevation_diff < 0 THEN -df[i].elevation_diff ELSE 0

\* Ten times the weighted mean .3/.4/.3 of an interior elevation and its two
\* neighbours; ten times the elevation itself at both ends.
Weighted(i) ==
    IF i = 1 \/ i = Len(df) THEN 10 * Elevation(i)
    ELSE 3 * Elevation(i - 1) + 4 * Elevation(i) + 3 * Elevation(i + 1)

WeightedRise(i) ==
    IF Weighted(i) > Weighted(i - 1) THEN Weighted(i) - Weighted(i - 1) ELSE 0
WeightedFall(i) ==
    IF Weighted(i) < Weighted(i - 1) THEN Weighted(i - 1) - Weighted(i) ELSE 0

C2_GainMinusLossTelescopes ==
    (Ready /\ WithElevations /\ Len(points) >= 2) =>
        elevation_gain - elevation_loss
            = 10 * (points[Len(points)].elevation - points[1].elevation)

\* A track that climbs and descends, its end below its start, loss read.
C2_Witness ==
    /\ Ready /\ WithElevations /\ Len(points) = 3
    /\ points[2].elevation > points[1].elevation
    /\ points[3].elevation < points[1].elevation
    /\ last.prop = "elevation_loss" /\ last.num = elevation_loss
    /\ elevation_gain > 0

\* C3: total_distance equals the last cum_distance_3d_km entry times 1000;
\* the two totals never diverge (here: by no more than a metre).
C3_TotalDistanceIsLastCumulative ==
    (Ready /\ last.prop = "total_distance") =>
        LET cum == df[Len(df)].cum_distance_3d_km
        IN  Abs(last.num * cum.den - cum.num * 1000 * last.den)
                <= cum.den * last.den

\* Row i and the row before it have the same latitude and longitude.
Coincident(i) ==
    /\ df[i].latitude = df[i - 1].latitude
    /\ df[i].longitude = df[i - 1].longitude

\* C4: two consecutive points with the same latitude and longitude give a
\* row with slope_gradient = 0, whatever their elevation difference.
C4_CoincidentPointsHaveZeroSlope ==
    Ready =>
        \A i \in 2..Len(df) :
            Coincident(i) =>
                df[i].slope_gradient.kind = "fin" /\ df[i].slope_gradient.num = 0

\* C5: avg_elevation_gain_per_km never raises; a total distance of 0 gives a
\* sentinel value.  (Stated for the routes whose points all have elevations.)
C5_AvgGainNeverRaises ==
    (WithElevations /\ last.prop = "avg_elevation_gain_per_km")
    => last.raised = "none"

\* The first segment of the file, if the file has one.
HasFirstSegment ==
    /\ gpx_file_path.wellformed
    /\ Len(gpx_file_path.tracks) >= 1
    /\ Len(gpx_file_path.tracks[1]) >= 1
FirstSegment == gpx_file_path.tracks[1][1]

\* C6: construction fails whenever the file has no track, a first track
\* without segment, or a first segment of fewer than 2 points.  (Stated for
\* the files whose points all have elevations.)
C6_FewerThanTwoPointsFails ==
    (pc # "new" /\ gpx_file_path.wellformed
        /\ (~HasFirstSegment
              \/ /\ Len(FirstSegment) < 2
                 /\ \A i \in 1..Len(FirstSegment) : FirstSegment[i].elevation # None))
    => pc = "failed"

\* The points with every missing elevation replaced by 0.
ZeroFilled(pts) ==
    [i \in 1..Len(pts) |->
        [pts[i] EXCEPT !.elevation = IF @ = None THEN 0 ELSE @]]

\* C7: when a point of the first segment has no elevation, construction does
\* not raise and the derived values are those of elevation 0 for that point.
\* (Stated for the segments of at least 2 points.)
C7_MissingElevationIsZero ==
    (pc # "new" /\ HasFirstSegment /\ Len(FirstSegment) >= 2
        /\ \E i \in 1..Len(FirstSegment) : FirstSegment[i].elevation = None)
    => /\ pc = "ready"
       /\ \A i \in 1..Len(df) :
            LET row == ProcessedTable(ZeroFilled(FirstSegment))[i]
            IN  /\ df[i].elevation_diff = row.elevation_diff
                /\ df[i].distance_between_points_3d = row.distance_between_points_3d
                /\ df[i].slope_gradient = row.slope_gradient

\* The gradient of row i, times 10000, is at least / below the value v.
GradientAtLeast(i, v) ==
    LET g == df[i].slope_gradient
    IN  g.kind = "fin" /\ g.num * 10000 >= v * g.den
GradientBelow(i, v) ==
    LET g == df[i].slope_gradient
    IN  g.kind = "fin" /\ g.num * 10000 < v * g.den

GradientIs(i, v) ==
    LET g == df[i].slope_gradient
    IN  g.kind = "fin" /\ g.num * 10000 = v * g.den

\* The label "lo -> hi%" of the 10-point bin whose lower edge is lo percent.
LabelOfBinFrom(lo) == ToString(lo) \o " -> " \o ToString(lo + 10) \o "%"

\* C8: every row whose slope_gradient g lies in [-1.0, 1.0) carries the
\* label of the bin [lo, hi) with lo <= g < hi, for all 20 bins from
\* [-100,-90) up to and including [90,100).
C8_GradientInItsOwnBin ==
    Ready =>
        \A i \in 1..Len(df) :
            \A k \in 0..19 :
                (GradientAtLeast(i, 1000 * k - 10000)
                    /\ GradientBelow(i, 1000 * k - 9000))
                => df[i].slope_bin = LabelOfBinFrom(10 * k - 100)

\* C9: a row whose slope_gradient is exactly a bin boundary carries the label
\* of the bin whose lower edge is that value: 0.10 is in "10 -> 20%", and
\* likewise for every other boundary.
C9_BoundaryGoesToUpperBin ==
    Ready =>
        \A i \in 1..Len(df) :
            \A k \in 0..19 :
                GradientIs(i, 1000 * k - 10000)
                => df[i].slope_bin = LabelOfBinFrom(10 * k - 100)

\* abs(slope_gradient) of row i is strictly above one fifth.
SteeperThanOneInFive(i) ==
    LET g == df[i].slope_gradient
    IN  \/ g.kind = "inf"
        \/ g.kind = "fin" /\ (5 * g.num > g.den \/ 5 * g.num < -g.den)

\* C10: hard_slope_percentage is the number of rows with |slope_gradient|
\* strictly greater than 0.20 divided by the number of rows; it lies in
\* [0, 1], a gradient of exactly 0.20 is not counted, and it is 0 when every
\* row has |slope_gradient| <= 0.20.
C10_HardSlopePercentage ==
    (Ready /\ last.prop = "hard_slope_percentage") =>
        /\ last.raised = "none"
        /\ last.den = Len(df) /\ last.den > 0
        /\ last.num = Cardinality({i \in 1..Len(df) : SteeperThanOneInFive(i)})
        /\ 0 <= last.num /\ last.num <= last.den
        /\ (\A i \in 1..Len(df) : ~SteeperThanOneInFive(i)) => last.num = 0

\* A route with a row at exactly 0.20, a row above it, and the percentage
\* read: one hard row of three.
C10_Witness ==
    /\ Ready /\ last.prop = "hard_slope_percentage" /\ Len(df) = 3
    /\ \E i \in 1..Len(df) :
          df[i].slope_gradient.kind = "fin"
          /\ 5 * df[i].slope_gradient.num = df[i].slope_gradient.den
    /\ \E i \in 1..Len(df) : SteeperThanOneInFive(i)
    /\ last.num = 1 /\ last.den = 3

C12_FirstRowIsZero ==
    Ready =>
        /\ Len(df) >= 1
        /\ df[1].elevation_diff = 0
        /\ df[1].distance_between_points_3d = 0
        /\ df[1].distance_between_points_2d = 0
        /\ df[1].cum_distance_3d_km.num = 0
        /\ df[1].cum_distance_2d_km.num = 0
        /\ df[1].slope_gradient.kind = "fin" /\ df[1].slope_gradient.num = 0
        /\ df[1].hard_slope = FALSE
        /\ df[1].slope_bin = "0 -> 10%"

\* A route whose first point is off the origin and 50 m high, followed by a
\* steep descent.
C12_Witness ==
    /\ Ready /\ Len(df) >= 2
    /\ df[1].longitude = 100 /\ df[1].elevation = 50
    /\ df[2].hard_slope /\ df[2].elevation_diff < 0
    /\ df[1].slope_bin = "0 -> 10%"

\* C14: no row other than the first is both flagged hard_slope and labelled
\* with the default bucket "0 -> 10%", also when its gradient is at or beyond
\* +-100% or not finite.
C14_HardRowNeverInDefaultBucket ==
    Ready =>
        \A i \in 2..Len(df) :
            ~(df[i].hard_slope /\ df[i].slope_bin = "0 -> 10%")

\* C13: in the two-route view exactly one map layout is rendered, the single
\* combined map when the routes distance is strictly below 50,000 m and the
\* two side-by-side maps otherwise (50,000 m included); the two-route view is
\* reached only when a first and a second route are selected, and the second
\* selection is never the entry selected first.  (The maps are those of a run
\* that loaded both routes without an exception.)
C13_OneMapLayoutByDistance ==
    /\ page.view = "compare" =>
          /\ selected_route_name_1 # NoSelection
          /\ selected_route_name_2 # NoSelection
          /\ selected_route_name_1 \in gpx_files
          /\ selected_route_name_2 \in gpx_files
    /\ selected_route_name_2 # NoSelection =>
          selected_route_name_2 # selected_route_name_1
    /\ (page.view = "compare" /\ page.raised = "none") =>
          /\ page.distance >= 0
          /\ page.distance < 50000 => page.maps = <<"combined">>
          /\ page.distance >= 50000 => page.maps = <<"route1", "route2">>
    /\ page.view # "compare" => "combined" \notin {page.maps[i] : i \in 1..Len(page.maps)}

\* Two routes exactly 50,000 m apart, shown side by side.
C13_Witness ==
    /\ page.view = "compare" /\ page.raised = "none"
    /\ page.distance = 50000
    /\ page.maps = <<"route1", "route2">>

====
